---- MODULE Spec2Model ----
(***************************************************************************)
(* Earthquake dashboard (streamlit_app.py): the feed loader and its        *)
(* schema normalisation, the place / minimum-magnitude filter, the         *)
(* optional country / continent enrichment, the KPI metrics and the tabs   *)
(* that render the working table.                                          *)
(*                                                                         *)
(* A DataFrame is [cols, rows]: cols is the ordered list of column names,  *)
(* rows the ordered list of rows; a row is [idx, val] with idx its pandas  *)
(* index label and val a function from the column names to cells.          *)
(* A cell is [k, v, s]: k = "null" (NaN / NaT / None), "num" (a float,     *)
(* v in tenths for magnitudes), "ts" (a UTC timestamp, v in hours) or      *)
(* "str" (a string, s its characters).                                     *)
(***************************************************************************)
EXTENDS Integers, Sequences, FiniteSets, TLC

VARIABLES
    pc,         \* position of the script run
    min_mag,    \* slider value, in tenths            (line 30)
    q,          \* place keyword, a character list    (line 32)
    raw,        \* what pd.read_csv returned          (line 43)
    df,         \* load_data(URL)                     (line 72)
    f,          \* the working table                  (lines 75-78, 119)
    f_arg,      \* the table object handed to enrich_country_continent
    geo,        \* [lib: are reverse_geocoder and country_converter importable,
                \*  pass: does CountryConverter pass an unmatched code through]
    exit_taken, \* which return of enrich_country_continent was taken
    ui,         \* what each stage rendered
    now,        \* wall clock, seconds
    ticks,      \* number of clock advances so far
    cache,      \* st.cache_data store of load_data: URL -> entry
    log         \* history of the load_data calls

vars ==
    <<pc, min_mag, q, raw, df, f, f_arg, geo, exit_taken, ui, now, ticks, cache, log>>

----------------------------------------------------------------------------
(* Bounds *)
MaxRows == 2        \* rows of a raw feed
MaxCalls == 3       \* load_data calls in a cache history
MaxTicks == 3       \* clock advances in a cache history

----------------------------------------------------------------------------
(* Cells *)
NaN == [k |-> "null", v |-> 0, s |-> <<>>]
Num(x) == [k |-> "num", v |-> x, s |-> <<>>]
Ts(h) == [k |-> "ts", v |-> h, s |-> <<>>]
Str(cs) == [k |-> "str", v |-> 0, s |-> cs]

isna(c) == c.k = "null"
notna(c) == c.k # "null"

----------------------------------------------------------------------------
(* DataFrame primitives *)
EmptyFrame == [cols |-> <<>>, rows |-> <<>>]

Range(sq) == {sq[i] : i \in 1..Len(sq)}

HasCol(t, c) == c \in Range(t.cols)

NRows(t) == Len(t.rows)

\* a column assignment that always adds a column, as a concat would
SetCol_append(t, c, vals) ==
    [cols |-> Append(t.cols, c),
     rows |-> [i \in 1..NRows(t) |->
                [idx |-> t.rows[i].idx,
                 val |-> (c :> vals[i]) @@ t.rows[i].val]]]

\* df[c] = vals : overwrite the column in place, or append it as the last one
SetCol(t, c, vals) ==
    [cols |-> IF HasCol(t, c) THEN t.cols ELSE Append(t.cols, c),
     rows |-> [i \in 1..NRows(t) |->
                [idx |-> t.rows[i].idx,
                 val |-> (c :> vals[i]) @@ t.rows[i].val]]]

\* df[c] = scalar
SetColScalar(t, c, x) == SetCol(t, c, [i \in 1..NRows(t) |-> x])

\* df[mask] : the rows whose position satisfies keep, order and labels kept
RECURSIVE SelectRows(_, _, _)
SelectRows(rows, keep, i) ==
    IF i > Len(rows) THEN <<>>
    ELSE IF keep[i] THEN <<rows[i]>> \o SelectRows(rows, keep, i + 1)
         ELSE SelectRows(rows, keep, i + 1)

Mask(t, keep) == [cols |-> t.cols, rows |-> SelectRows(t.rows, keep, 1)]

----------------------------------------------------------------------------
(* load_data: schema normalisation *)
Digits == {"0", "1", "2", "3", "4", "5", "6", "7", "8", "9"}

DigitVal(ch) ==
    CASE ch = "0" -> 0 [] ch = "1" -> 1 [] ch = "2" -> 2 [] ch = "3" -> 3
      [] ch = "4" -> 4 [] ch = "5" -> 5 [] ch = "6" -> 6 [] ch = "7" -> 7
      [] ch = "8" -> 8 [] OTHER -> 9

RECURSIVE DigitsToInt(_)
DigitsToInt(cs) ==
    IF cs = <<>> THEN 0
    ELSE 10 * DigitsToInt(SubSeq(cs, 1, Len(cs) - 1)) + DigitVal(cs[Len(cs)])

\* pd.to_datetime(errors="coerce", utc=True) on one cell: a time stamp text
\* (here: a non-empty digit string, the hour) parses, anything else is NaT
to_datetime(c) ==
    IF c.k = "ts" THEN c
    ELSE IF c.k = "str" /\ c.s # <<>> /\ Range(c.s) \subseteq Digits
         THEN Ts(DigitsToInt(c.s))
         ELSE NaN

\* a coercion that turns what it cannot parse into 0
to_numeric_zero(c) == IF c.k = "num" THEN c ELSE Num(0)

\* pd.to_numeric(errors="coerce") on one cell
to_numeric(c) == IF c.k = "num" THEN c ELSE NaN

\* Series.fillna(x) on one cell
fillna(c, x) == IF isna(c) THEN x ELSE c

RenameName(n) ==
    CASE n = "latitude" -> "lat"
      [] n = "longitude" -> "lon"
      [] n = "mag" -> "magnitude"
      [] OTHER -> n

\* df.rename(columns={...}, inplace=True)
Rename(t) ==
    [cols |-> [i \in 1..Len(t.cols) |-> RenameName(t.cols[i])],
     rows |-> [i \in 1..NRows(t) |->
                [idx |-> t.rows[i].idx,
                 val |-> [n \in {RenameName(c) : c \in DOMAIN t.rows[i].val} |->
                            t.rows[i].val[CHOOSE c \in DOMAIN t.rows[i].val :
                                              RenameName(c) = n]]]]]

\* the body of "for col in [lat, lon, magnitude, depth]"
NumericCol(t, col) ==
    LET t1 == IF HasCol(t, col) THEN t ELSE SetColScalar(t, col, NaN)
    IN SetCol(t1, col, [i \in 1..NRows(t1) |-> to_numeric(t1.rows[i].val[col])])

HashMod == 65536

CellCode(c) ==
    CASE c.k = "null" -> 0
      [] c.k = "str" -> 1
      [] OTHER -> 2 + ((c.v + 1000) % 1000)

\* pd.util.hash_pandas_object(df[[time, lat, lon]], index=False): a hash of
\* the three values of the row alone (the index label does not enter)
hash_row(r) ==
    ((((CellCode(r.val["time"]) * 31 + CellCode(r.val["lat"])) % HashMod) * 37
        + CellCode(r.val["lon"])) * 41 + 97) % HashMod

RECURSIVE IntToDigits(_)
IntToDigits(n) ==
    IF n < 10 THEN <<CHOOSE d \in Digits : DigitVal(d) = n>>
    ELSE Append(IntToDigits(n \div 10), CHOOSE d \in Digits : DigitVal(d) = n % 10)

load_data(rawframe) ==
    LET t1 == IF HasCol(rawframe, "time")
              THEN SetCol(rawframe, "time",
                          [i \in 1..NRows(rawframe) |->
                              to_datetime(rawframe.rows[i].val["time"])])
              ELSE SetColScalar(rawframe, "time", NaN)
        t2 == Rename(t1)
        t3 == NumericCol(NumericCol(NumericCol(NumericCol(t2, "lat"), "lon"),
                                    "magnitude"), "depth")
        t4 == IF ~HasCol(t3, "place")
              THEN SetColScalar(t3, "place", Str(<<>>))
              ELSE SetCol(t3, "place",
                          [i \in 1..NRows(t3) |->
                              fillna(t3.rows[i].val["place"], Str(<<>>))])
        t5 == IF ~HasCol(t4, "id")
              THEN SetCol(t4, "id",
                          [i \in 1..NRows(t4) |->
                              Str(IntToDigits(hash_row(t4.rows[i])))])
              ELSE t4
    IN t5

----------------------------------------------------------------------------
(* The filter block, lines 74-78 *)
Lower(ch) == CASE ch = "A" -> "a" [] ch = "B" -> "b" [] OTHER -> ch

\* re.search(pat, s, re.IGNORECASE) for patterns over letters and ".":
\* str.contains is called with its default regex=True, so "." in the
\* keyword is the any-character wildcard
re_match_at(pat, s, i) ==
    \A j \in 1..Len(pat) : pat[j] = "." \/ Lower(pat[j]) = Lower(s[i + j - 1])

re_search(pat, s) ==
    \E i \in 1..(Len(s) - Len(pat) + 1) : re_match_at(pat, s, i)

\* Series.str.contains(pat, case=False, na=False) on one cell
str_contains(c, pat) == IF c.k = "str" THEN re_search(pat, c.s) ELSE FALSE

\* the comparison without fillna(0): a null magnitude compares False
mag_ge_nofill(c, m) == c.k = "num" /\ c.v >= m

\* f["magnitude"].fillna(0) >= m on one cell
mag_ge(c, m) == fillna(c, Num(0)).v >= m

filter_block(t, kw, m) ==
    LET f0 == t
        f1 == IF kw # <<>>
              THEN Mask(f0, [i \in 1..NRows(f0) |->
                                str_contains(f0.rows[i].val["place"], kw)])
              ELSE f0
    IN Mask(f1, [i \in 1..NRows(f1) |-> mag_ge(f1.rows[i].val["magnitude"], m)])

----------------------------------------------------------------------------
(* enrich_country_continent, lines 83-116 *)

\* rg.search(coords, mode=2)[i]["cc"]: the code of the nearest known place,
\* a function of the coordinates alone
rg_search(la, lo) == IF lo >= 100 THEN <<"J", "P">> ELSE <<"Z", "Z">>

NotFound(c, g) == IF g.pass THEN Str(IF isna(c) THEN <<"n", "a", "n">> ELSE c.s) ELSE NaN

\* CountryConverter().convert(code, to="name_short", not_found=None)
cc_name(c, g) ==
    IF c.k = "str" /\ c.s = <<"J", "P">> THEN Str(<<"J", "a", "p", "a", "n">>)
    ELSE NotFound(c, g)

\* CountryConverter().convert(code, to="continent", not_found=None)
cc_continent(c, g) ==
    IF c.k = "str" /\ c.s = <<"J", "P">> THEN Str(<<"A", "s", "i", "a">>)
    ELSE NotFound(c, g)

\* out[["lat","lon"]].dropna(): the positions of the rows it keeps
ValidPos(t) ==
    {i \in 1..NRows(t) : notna(t.rows[i].val["lat"]) /\ notna(t.rows[i].val["lon"])}

\* the codes written by position, to the first rows, instead of by label
AssignCodes_positional(t) ==
    LET t1 == SetColScalar(t, "country_code", NaN)
        valid == ValidPos(t)
        nth(i) == CHOOSE j \in valid : Cardinality({x \in valid : x < j}) = i - 1
    IN SetCol(t1, "country_code",
              [i \in 1..NRows(t1) |->
                 IF i <= Cardinality(valid)
                 THEN Str(rg_search(t.rows[nth(i)].val["lat"].v,
                                    t.rows[nth(i)].val["lon"].v))
                 ELSE NaN])

\* out.loc[iso2.index, "country_code"] = iso2.values, after
\* out["country_code"] = np.nan : assignment by index label
AssignCodes(t) ==
    LET t1 == SetColScalar(t, "country_code", NaN)
        valid == ValidPos(t)
        labelled(i) == {j \in valid : t.rows[j].idx = t1.rows[i].idx}
    IN SetCol(t1, "country_code",
              [i \in 1..NRows(t1) |->
                 IF labelled(i) # {}
                 THEN LET k == CHOOSE j \in labelled(i) : TRUE
                      IN Str(rg_search(t.rows[k].val["lat"].v, t.rows[k].val["lon"].v))
                 ELSE NaN])

NullColumns(t) ==
    SetColScalar(SetColScalar(SetColScalar(t, "country", NaN), "continent", NaN),
                 "country_code", NaN)

\* The result is [arg, ret, exit]: the input object after the call, the
\* returned table, and which return statement was taken (1: import failed,
\* 2: no row with both coordinates, 3: lookup).
enrich_country_continent(df_input, g) ==
    IF ~g.lib
    THEN [arg |-> df_input, ret |-> NullColumns(df_input), exit |-> 1]
    ELSE LET out == df_input
         IN IF ValidPos(out) = {}
            THEN [arg |-> df_input, ret |-> NullColumns(out), exit |-> 2]
            ELSE LET o1 == AssignCodes(out)
                     o2 == SetCol(o1, "country",
                                  [i \in 1..NRows(o1) |->
                                      cc_name(o1.rows[i].val["country_code"], g)])
                     o3 == SetCol(o2, "continent",
                                  [i \in 1..NRows(o2) |->
                                      cc_continent(o2.rows[i].val["country_code"], g)])
                 IN [arg |-> df_input, ret |-> o3, exit |-> 3]

----------------------------------------------------------------------------
(* KPI metrics, lines 124-128.  A rendered metric is [kind, val]:          *)
(* "dash" is the text "-", "nan" the text "nan", "num" a formatted number  *)
(* (val in the unit of the last printed decimal).                          *)
Dash == [kind |-> "dash", val |-> 0]
NanText == [kind |-> "nan", val |-> 0]
NumText(x) == [kind |-> "num", val |-> x]

NonNull(t, c) == {i \in 1..NRows(t) : notna(t.rows[i].val[c])}

RECURSIVE SumAt(_, _, _)
SumAt(t, c, S) ==
    IF S = {} THEN 0
    ELSE LET i == CHOOSE i \in S : TRUE
         IN t.rows[i].val[c].v + SumAt(t, c, S \ {i})

\* round(n / d) to the nearest integer, ties to even
RoundDiv(n, d) ==
    LET fl == n \div d
        rem == n % d
    IN IF 2 * rem < d THEN fl
       ELSE IF 2 * rem > d THEN fl + 1
       ELSE IF fl % 2 = 0 THEN fl ELSE fl + 1

\* Series.max(): NaN when no value is non-null
series_max(t, c) ==
    LET S == NonNull(t, c)
    IN IF S = {} THEN NanText
       ELSE NumText(CHOOSE m \in {t.rows[i].val[c].v : i \in S} :
                        \A i \in S : t.rows[i].val[c].v <= m)

\* Series.mean() printed with `scale` times finer unit than the column's
series_mean(t, c, scale) ==
    LET S == NonNull(t, c)
    IN IF S = {} THEN NanText
       ELSE NumText(RoundDiv(scale * SumAt(t, c, S), Cardinality(S)))

kpi_count(t) == NumText(NRows(t))
kpi_max(t) == IF NRows(t) # 0 THEN series_max(t, "magnitude") ELSE Dash
kpi_mean(t) == IF NRows(t) # 0 THEN series_mean(t, "magnitude", 10) ELSE Dash
kpi_depth(t) == IF NRows(t) # 0 THEN series_mean(t, "depth", 1) ELSE Dash

----------------------------------------------------------------------------
(* The tabs, lines 138-282 *)
NBins == 20
UpperFloor == 80

\* what the histogram block put on the page: a bar chart of the counts, or nothing
NoHist == [widget |-> "nothing", counts |-> <<>>, first |-> 0, last |-> 0]

\* np.histogram(values.dropna(), bins=20, range=(0, upper)): values outside
\* the range are not counted, the last bin is closed on the right
BinOf(x, upper) == IF x = upper THEN NBins ELSE (x * NBins) \div upper + 1

\* a histogram of magnitude.fillna(0): nulls binned as zero
histogram_fillna(t, upper) ==
    LET x(i) == fillna(t.rows[i].val["magnitude"], Num(0)).v
    IN [widget |-> "bar_chart",
        counts |-> [b \in 1..NBins |->
                       Cardinality({i \in 1..NRows(t) : x(i) >= 0 /\ x(i) <= upper
                                                         /\ BinOf(x(i), upper) = b})],
        first |-> 0,
        last |-> upper]

histogram(t, upper) ==
    LET S == NonNull(t, "magnitude")
        x(i) == t.rows[i].val["magnitude"].v
    IN [widget |-> "bar_chart",
        counts |-> [b \in 1..NBins |->
                       Cardinality({i \in S : x(i) >= 0 /\ x(i) <= upper
                                              /\ BinOf(x(i), upper) = b})],
        first |-> 0,
        last |-> upper]

tab_map(t) == IF NRows(t) # 0 THEN "pydeck_chart" ELSE "info"

tab_trend_hist(t) ==
    IF NRows(t) # 0 /\ NonNull(t, "magnitude") # {}
    THEN LET mx == series_max(t, "magnitude").val
         IN histogram(t, IF mx > UpperFloor THEN mx ELSE UpperFloor)
    ELSE NoHist

tab_trend_series(t) ==
    IF NRows(t) # 0 /\ NonNull(t, "time") # {} THEN "line_chart" ELSE "nothing"

tab_region(t) ==
    IF NRows(t) # 0 /\ NonNull(t, "continent") # {} THEN "dataframes" ELSE "info"

tab_data(t) ==
    SelectSeq(<<"time", "magnitude", "depth", "place", "lat", "lon", "type",
                "status", "id", "country", "continent", "country_code">>,
              LAMBDA c : HasCol(t, c))

M0 == [kind |-> "", val |-> 0]
UiBlank ==
    [count |-> M0, max |-> M0, mean |-> M0, depth |-> M0, map |-> "",
     hist |-> NoHist, series |-> "", region |-> "", data |-> <<>>]

----------------------------------------------------------------------------
(* The feeds pd.read_csv may return *)
FullCols == <<"time", "latitude", "longitude", "depth", "mag", "place", "type", "id">>

FeedRow(t, la, lo, d, m, p, i) ==
    [n \in Range(FullCols) |->
        CASE n = "time" -> t [] n = "latitude" -> la [] n = "longitude" -> lo
          [] n = "depth" -> d [] n = "mag" -> m [] n = "place" -> p
          [] n = "id" -> i [] OTHER -> Str(<<"e", "q">>)]

Junk == Str(<<"x">>)

FeedRows ==
    { FeedRow(Str(<<"0", "3">>), Num(35), Num(139), Num(100), Num(50),
              Str(<<"A", "b">>), Str(<<"e", "1">>)),
      FeedRow(Str(<<"0", "3">>), Num(35), Num(139), Num(305), Num(20),
              Str(<<"b">>), Str(<<"e", "2">>)),
      FeedRow(Junk, NaN, Num(20), NaN, Junk, NaN, NaN),
      FeedRow(Str(<<"0", "5">>), Num(-10), Num(20), Junk, Num(-10),
              Str(<<"a", ".">>), Str(<<"e", "3">>)),
      FeedRow(Str(<<"0", "9">>), Num(40), NaN, Num(50), Num(90),
              Str(<<"B">>), Str(<<"e", "4">>)),
      FeedRow(NaN, Num(-10), Num(20), NaN, NaN,
              Str(<<"A", "b">>), Str(<<"e", "5">>)) }

SourceName(n) ==
    CASE n = "lat" -> "latitude" [] n = "lon" -> "longitude"
      [] n = "magnitude" -> "mag" [] OTHER -> n

Headers ==
    { FullCols,
      <<"time", "latitude", "longitude", "depth", "mag", "place", "type">>,
      <<"lat", "lon", "magnitude", "type", "id">> }

\* the frame read_csv builds: the header's columns, a RangeIndex from 0
Frame(header, rs) ==
    [cols |-> header,
     rows |-> [i \in 1..Len(rs) |->
                [idx |-> i - 1,
                 val |-> [n \in Range(header) |-> rs[i][SourceName(n)]]]]]

RawFrames ==
    {Frame(h, rs) : h \in Headers,
                    rs \in UNION {[1..n -> FeedRows] : n \in 0..MaxRows}}

Keywords == {<<>>, <<"a", "b">>, <<".">>}
MinMags == {0, 30}

----------------------------------------------------------------------------
(* The feed URL, lines 34-36, and the cache of load_data, line 41 *)
Periods == {"last 24 hours", "last 7 days", "last 30 days"}
MagClasses == {"all", "M2.5+", "M4.5+", "Significant"}

period_map(p) ==
    CASE p = "last 24 hours" -> "day" [] p = "last 7 days" -> "week" [] OTHER -> "month"

mag_map(c) ==
    CASE c = "all" -> "all" [] c = "M2.5+" -> "2.5" [] c = "M4.5+" -> "4.5"
      [] OTHER -> "significant"

URL(mag_class, period) ==
    <<"https://earthquake.usgs.gov/earthquakes/feed/v1.0/summary/",
      mag_map(mag_class), "_", period_map(period), ".csv">>

URLs == {URL(c, p) : c \in MagClasses, p \in Periods}

TTL == 3600

NoEntry == [present |-> FALSE, at |-> 0, value |-> EmptyFrame]

\* an entry that still answers at the age of exactly ttl
cache_hit_le(entry, t) == entry.present /\ t - entry.at <= TTL

\* an entry answers a call while it is younger than ttl
cache_hit(entry, t) == entry.present /\ t - entry.at < TTL

\* @st.cache_data(ttl=3600) around load_data(url): the entry of this url is
\* returned while it is fresh; otherwise the body runs, and its result is
\* stored only when it returns (read_csv raising stores nothing).
\* fetch is what the network does now: [ok, frame].
cached_load_data(c, url, t, fetch) ==
    IF cache_hit(c[url], t)
    THEN [cache |-> c, fetched |-> FALSE, ok |-> TRUE, value |-> c[url].value]
    ELSE IF fetch.ok
         THEN LET v == load_data(fetch.frame)
              IN [cache |-> [c EXCEPT ![url] = [present |-> TRUE, at |-> t, value |-> v]],
                  fetched |-> TRUE, ok |-> TRUE, value |-> v]
         ELSE [cache |-> c, fetched |-> TRUE, ok |-> FALSE, value |-> EmptyFrame]

----------------------------------------------------------------------------
(* One script run, top to bottom *)
Init ==
    /\ pc = "controls"
    /\ min_mag = 0
    /\ q = <<>>
    /\ raw = EmptyFrame
    /\ df = EmptyFrame
    /\ f = EmptyFrame
    /\ f_arg = EmptyFrame
    /\ geo \in [lib : BOOLEAN, pass : BOOLEAN]
    /\ exit_taken = 0
    /\ ui = UiBlank
    /\ now = 0
    /\ ticks = 0
    /\ cache = [u \in URLs |-> NoEntry]
    /\ log = <<>>

CacheVars == <<now, ticks, cache, log>>

\* lines 24-36
Controls ==
    /\ pc = "controls"
    /\ min_mag' \in MinMags
    /\ q' \in Keywords
    /\ pc' = "load"
    /\ UNCHANGED <<raw, df, f, f_arg, geo, exit_taken, ui, CacheVars>>

\* lines 71-72, the body of load_data on what read_csv returned
LoadData ==
    /\ pc = "load"
    /\ \E rawframe \in RawFrames :
          /\ raw' = rawframe
          /\ df' = load_data(rawframe)
    /\ pc' = "filter"
    /\ UNCHANGED <<min_mag, q, f, f_arg, geo, exit_taken, ui, CacheVars>>

\* lines 74-78
Filter ==
    /\ pc = "filter"
    /\ f' = filter_block(df, q, min_mag)
    /\ pc' = "enrich"
    /\ UNCHANGED <<min_mag, q, raw, df, f_arg, geo, exit_taken, ui, CacheVars>>

\* lines 118-119
Enrich ==
    /\ pc = "enrich"
    /\ LET r == enrich_country_continent(f, geo)
       IN /\ f_arg' = r.arg
          /\ f' = r.ret
          /\ exit_taken' = r.exit
    /\ pc' = "kpi"
    /\ UNCHANGED <<min_mag, q, raw, df, geo, ui, CacheVars>>

\* lines 124-128
Kpi ==
    /\ pc = "kpi"
    /\ ui' = [ui EXCEPT !.count = kpi_count(f), !.max = kpi_max(f),
                        !.mean = kpi_mean(f), !.depth = kpi_depth(f)]
    /\ pc' = "tab_map"
    /\ UNCHANGED <<min_mag, q, raw, df, f, f_arg, geo, exit_taken, CacheVars>>

\* lines 138-220
TabMap ==
    /\ pc = "tab_map"
    /\ ui' = [ui EXCEPT !.map = tab_map(f)]
    /\ pc' = "tab_trend"
    /\ UNCHANGED <<min_mag, q, raw, df, f, f_arg, geo, exit_taken, CacheVars>>

\* lines 228-238
TabTrend ==
    /\ pc = "tab_trend"
    /\ ui' = [ui EXCEPT !.hist = tab_trend_hist(f), !.series = tab_trend_series(f)]
    /\ pc' = "tab_region"
    /\ UNCHANGED <<min_mag, q, raw, df, f, f_arg, geo, exit_taken, CacheVars>>

\* lines 241-272
TabRegion ==
    /\ pc = "tab_region"
    /\ ui' = [ui EXCEPT !.region = tab_region(f)]
    /\ pc' = "tab_data"
    /\ UNCHANGED <<min_mag, q, raw, df, f, f_arg, geo, exit_taken, CacheVars>>

\* lines 275-282
TabData ==
    /\ pc = "tab_data"
    /\ ui' = [ui EXCEPT !.data = tab_data(f)]
    /\ pc' = "done"
    /\ UNCHANGED <<min_mag, q, raw, df, f, f_arg, geo, exit_taken, CacheVars>>

\* a widget interaction reruns the script from the top
Rerun ==
    /\ pc = "done"
    /\ pc' = "controls"
    /\ raw' = EmptyFrame
    /\ df' = EmptyFrame
    /\ f' = EmptyFrame
    /\ f_arg' = EmptyFrame
    /\ exit_taken' = 0
    /\ ui' = UiBlank
    /\ UNCHANGED <<min_mag, q, geo, CacheVars>>

Next ==
    \/ Controls
    \/ LoadData
    \/ Filter
    \/ Enrich
    \/ Kpi
    \/ TabMap
    \/ TabTrend
    \/ TabRegion
    \/ TabData
    \/ Rerun

Spec == Init /\ [][Next]_vars

----------------------------------------------------------------------------
(* Script runs over time, as far as the load_data call: the clock advances *)
(* between runs, a run picks the period and the magnitude class.           *)
Ticks == {1, 3599}
RunPeriods == {"last 24 hours", "last 7 days"}
RunClasses == {"M4.5+"}

Fetches ==
    {[ok |-> FALSE, frame |-> EmptyFrame]} \cup
    {[ok |-> TRUE, frame |-> Frame(FullCols, <<r>>)] :
        r \in {x \in FeedRows : x["mag"] \in {Num(50), Num(90)}}}

InitCache ==
    /\ Init
    /\ geo = [lib |-> TRUE, pass |-> FALSE]

Tick ==
    /\ ticks < MaxTicks
    /\ \E d \in Ticks : now' = now + d
    /\ ticks' = ticks + 1
    /\ UNCHANGED <<pc, min_mag, q, raw, df, f, f_arg, geo, exit_taken, ui, cache, log>>

\* lines 24-36 and 71-72 of one run
Run ==
    /\ Len(log) < MaxCalls
    /\ \E p \in RunPeriods, mc \in RunClasses, fetch \in Fetches :
          LET r == cached_load_data(cache, URL(mc, p), now, fetch)
          IN /\ cache' = r.cache
             /\ log' = Append(log, [url |-> URL(mc, p), at |-> now,
                                    fetched |-> r.fetched, ok |-> r.ok,
                                    value |-> r.value])
             /\ raw' = IF r.fetched /\ r.ok THEN fetch.frame ELSE raw
             /\ df' = IF r.ok THEN r.value ELSE df
    /\ UNCHANGED <<pc, min_mag, q, f, f_arg, geo, exit_taken, ui, now, ticks>>

NextCache ==
    \/ Tick
    \/ Run

SpecCache == InitCache /\ [][NextCache]_vars

----------------------------------------------------------------------------
(* Properties *)
AfterLoad == pc \notin {"controls", "load"}
AfterFilter == pc = "enrich"
AfterEnrich == pc \in {"kpi", "tab_map", "tab_trend", "tab_region", "tab_data", "done"}
AfterKpi == pc \in {"tab_map", "tab_trend", "tab_region", "tab_data", "done"}
AfterTrend == pc \in {"tab_region", "tab_data", "done"}

RECURSIVE SumSeq(_)
SumSeq(sq) == IF sq = <<>> THEN 0 ELSE Head(sq) + SumSeq(Tail(sq))

NoNegativeMagnitude(t) ==
    \A i \in 1..NRows(t) :
        t.rows[i].val["magnitude"].k = "num" => t.rows[i].val["magnitude"].v >= 0

\* C1 as stated: with an empty keyword and min_magnitude 0.0 the filter
\* returns the normalized table itself, whatever its magnitudes.
C1_IdentityFilterAnyMagnitude ==
    (AfterFilter /\ q = <<>> /\ min_mag = 0) => f = df

\* C1 amended: with an empty keyword and min_magnitude 0.0 the filter returns
\* a table equal to its input (rows, order, values) whenever no row has a
\* negative magnitude; null magnitudes are kept.
C1_IdentityFilter ==
    (AfterFilter /\ q = <<>> /\ min_mag = 0 /\ NoNegativeMagnitude(df)) => f = df

C1_Witness ==
    /\ AfterFilter /\ q = <<>> /\ min_mag = 0 /\ NoNegativeMagnitude(df)
    /\ NRows(df) = 2
    /\ isna(df.rows[1].val["magnitude"])
    /\ notna(df.rows[2].val["magnitude"])
    /\ f = df

\* the filter the specification describes: literal, case-insensitive
\* substring containment, and magnitude with null read as 0 at least m
LiteralContains(s, kw) ==
    \E i \in 1..(Len(s) - Len(kw) + 1) :
        \A j \in 1..Len(kw) : Lower(kw[j]) = Lower(s[i + j - 1])

ReferenceKeep(r, kw, m) ==
    /\ kw = <<>> \/ (r.val["place"].k = "str" /\ LiteralContains(r.val["place"].s, kw))
    /\ (IF isna(r.val["magnitude"]) THEN 0 ELSE r.val["magnitude"].v) >= m

\* C2: the filter stage returns exactly the input rows, in order and
\* unchanged, whose place contains the keyword as a case-insensitive
\* substring (or the keyword is empty) and whose magnitude, null read as 0,
\* is at least the threshold.
C2_FilterEqualsReference ==
    AfterFilter =>
        f = Mask(df, [i \in 1..NRows(df) |-> ReferenceKeep(df.rows[i], q, min_mag)])

\* C3: a computed magnitude histogram has 20 bins from 0 to
\* max(8, observed maximum), and its counts sum to the number of rows of the
\* working table with a non-null magnitude.
C3_Histogram ==
    (AfterTrend /\ ui.hist.widget = "bar_chart") =>
        /\ Len(ui.hist.counts) = 20
        /\ ui.hist.first = 0
        /\ ui.hist.last >= 80
        /\ \A i \in NonNull(f, "magnitude") : f.rows[i].val["magnitude"].v <= ui.hist.last
        /\ \/ ui.hist.last = 80
           \/ \E i \in NonNull(f, "magnitude") : f.rows[i].val["magnitude"].v = ui.hist.last
        /\ SumSeq(ui.hist.counts) = Cardinality(NonNull(f, "magnitude"))

C3_Witness ==
    /\ AfterTrend /\ ui.hist.widget = "bar_chart"
    /\ ui.hist.last > 80
    /\ NRows(f) = 2
    /\ Cardinality(NonNull(f, "magnitude")) = 1
    /\ SumSeq(ui.hist.counts) = 1

\* C4: the count metric is the number of rows, and a metric that is
\* undefined (no non-null magnitude, no non-null depth) shows "-".
C4_MetricsPlaceholder ==
    AfterKpi =>
        /\ ui.count = NumText(NRows(f))
        /\ NonNull(f, "magnitude") = {} => (ui.max = Dash /\ ui.mean = Dash)
        /\ NonNull(f, "depth") = {} => ui.depth = Dash

\* C5: on an empty working table the map, the histogram, the time series
\* and the region stage each show a no-data notice.
C5_NoDataEverywhere ==
    (pc = "done" /\ NRows(f) = 0) =>
        /\ ui.map = "info"
        /\ ui.hist.widget = "info"
        /\ ui.series = "info"
        /\ ui.region = "info"

GeoCols == {"country_code", "country", "continent"}

OtherCols(t) == SelectSeq(t.cols, LAMBDA c : c \notin GeoCols)

\* C6: on each of its three returns enrich_country_continent keeps the rows,
\* their order and every other column, leaves its input as it was, has the
\* three geo columns all null on the first two returns, and on the third a
\* null country_code wherever lat or lon is null.
C6_EnrichRowPreserving ==
    AfterEnrich =>
        LET input == filter_block(df, q, min_mag)
        IN /\ f_arg = input
           /\ NRows(f) = NRows(input)
           /\ OtherCols(f) = OtherCols(input)
           /\ GeoCols \subseteq Range(f.cols)
           /\ \A i \in 1..NRows(input) :
                 /\ f.rows[i].idx = input.rows[i].idx
                 /\ \A c \in Range(input.cols) \ GeoCols :
                        f.rows[i].val[c] = input.rows[i].val[c]
                 /\ exit_taken \in {1, 2} =>
                        \A c \in GeoCols : isna(f.rows[i].val[c])
                 /\ (exit_taken = 3 /\ (isna(input.rows[i].val["lat"])
                                        \/ isna(input.rows[i].val["lon"]))) =>
                        isna(f.rows[i].val["country_code"])
           /\ exit_taken = 1 <=> ~geo.lib
           /\ exit_taken = 2 <=> (geo.lib /\ ValidPos(input) = {})
           /\ exit_taken = 3 <=> (geo.lib /\ ValidPos(input) # {})

C6_Witness ==
    /\ pc = "kpi" /\ exit_taken = 3
    /\ NRows(f) = 2
    /\ isna(f.rows[1].val["lon"]) /\ isna(f.rows[1].val["country_code"])
    /\ notna(f.rows[2].val["country_code"])

\* the cell of the feed that canonical column c is read from, NaN if the
\* feed has no such column
SourceCell(t, i, c) ==
    IF HasCol(t, c) THEN t.rows[i].val[c]
    ELSE IF HasCol(t, SourceName(c)) THEN t.rows[i].val[SourceName(c)]
    ELSE NaN

NormalizedExceptId ==
    /\ NRows(df) = NRows(raw)
    /\ {"time", "lat", "lon", "magnitude", "depth", "place", "id"} \subseteq Range(df.cols)
    /\ \A i \in 1..NRows(df) :
          /\ notna(df.rows[i].val["place"])
          /\ HasCol(raw, "place") =>
                df.rows[i].val["place"] = fillna(raw.rows[i].val["place"], Str(<<>>))
          /\ \A c \in {"lat", "lon", "magnitude", "depth"} :
                /\ SourceCell(raw, i, c).k # "num" => isna(df.rows[i].val[c])
                /\ SourceCell(raw, i, c).k = "num" => df.rows[i].val[c] = SourceCell(raw, i, c)
          /\ (HasCol(raw, "time") /\ raw.rows[i].val["time"] = Junk)
                => isna(df.rows[i].val["time"])

\* C7 as stated: load_data keeps every row and returns the columns time,
\* lat, lon, magnitude, depth, place and id, with place and id non-null on
\* every row and an unparsable number or time null.
C7_NormalizedIdNeverNull ==
    AfterLoad =>
        /\ NormalizedExceptId
        /\ \A i \in 1..NRows(df) : notna(df.rows[i].val["id"])

\* C7 amended: load_data keeps every row and returns the seven columns, with
\* place non-null on every row and an unparsable number or time null (never
\* zero); id is non-null on every row when the feed has no id column (it is
\* then derived), and a feed's own id column is returned as it came, so a
\* row's id is null exactly where the feed's was.
C7_Normalized ==
    AfterLoad =>
        /\ NormalizedExceptId
        /\ \A i \in 1..NRows(df) :
              IF HasCol(raw, "id")
              THEN df.rows[i].val["id"] = raw.rows[i].val["id"]
              ELSE notna(df.rows[i].val["id"])

C7_Witness ==
    /\ pc = "filter"
    /\ ~HasCol(raw, "id")
    /\ NRows(df) = 2
    /\ raw.rows[1].val["mag"] = Junk /\ isna(df.rows[1].val["magnitude"])
    /\ isna(raw.rows[1].val["place"]) /\ df.rows[1].val["place"] = Str(<<>>)
    /\ raw.rows[2].val["depth"] = Junk /\ isna(df.rows[2].val["depth"])
    /\ notna(df.rows[1].val["id"])

\* C8: no two rows of a table returned by load_data have the same id.
C8_IdUnique ==
    AfterLoad =>
        \A i, j \in 1..NRows(df) : i # j => df.rows[i].val["id"] # df.rows[j].val["id"]

\* C10: with the geo libraries available, enriching the enriched table
\* returns a table equal to it.
C10_EnrichIdempotent ==
    (AfterEnrich /\ geo.lib) => enrich_country_continent(f, geo).ret = f

C10_Witness ==
    /\ pc = "kpi" /\ geo.lib /\ exit_taken = 3
    /\ NRows(f) = 2
    /\ isna(f.rows[1].val["country_code"])
    /\ f.rows[2].val["country_code"] = Str(<<"Z", "Z">>)
    /\ enrich_country_continent(f, geo).ret = f

PriorFresh(i) ==
    \E j \in 1..(i - 1) :
        /\ log[j].url = log[i].url
        /\ log[j].fetched /\ log[j].ok
        /\ log[i].at - log[j].at < 3600

LastStored(i) ==
    CHOOSE j \in 1..(i - 1) :
        /\ log[j].url = log[i].url /\ log[j].fetched /\ log[j].ok
        /\ \A k \in (j + 1)..(i - 1) :
              ~(log[k].url = log[i].url /\ log[k].fetched /\ log[k].ok)

FetchIffNoFreshEntry ==
    \A i \in 1..Len(log) :
        /\ log[i].fetched <=> ~PriorFresh(i)
        /\ ~log[i].fetched => (log[i].ok /\ log[i].value = log[LastStored(i)].value)

\* C9 as stated: a call fetches exactly when no entry of its URL was fetched
\* less than 3600 s before, a hit returns the cached table, and per URL no
\* two fetches are less than 3600 s apart.
C9_CacheTtlAnyFetch ==
    /\ FetchIffNoFreshEntry
    /\ \A i, j \in 1..Len(log) :
          (i < j /\ log[i].url = log[j].url /\ log[i].fetched /\ log[j].fetched)
             => log[j].at - log[i].at >= 3600

\* C9 amended: a call fetches exactly when no entry of its URL was stored
\* less than 3600 s before, a hit returns the cached table, and per URL no
\* two fetches that returned a table are less than 3600 s apart (a fetch
\* that fails stores nothing, so the next call fetches again).
C9_CacheTtl ==
    /\ FetchIffNoFreshEntry
    /\ \A i, j \in 1..Len(log) :
          (i < j /\ log[i].url = log[j].url /\ log[i].fetched /\ log[i].ok
                 /\ log[j].fetched /\ log[j].ok)
             => log[j].at - log[i].at >= 3600

C9_Witness ==
    /\ Len(log) = 3
    /\ log[1].url = log[2].url /\ log[2].url = log[3].url
    /\ log[1].fetched /\ log[1].ok
    /\ ~log[2].fetched /\ log[2].at - log[1].at = 3599
    /\ log[3].fetched /\ log[3].at - log[1].at = 3600

====
